---- MODULE Spec2Model ----
(***************************************************************************)
(* The pantry-tracker proxy (server.js, the variant with the /api prefix   *)
(* and the AI endpoints): an Express router whose handlers translate REST  *)
(* calls into requests to a Grist document service and to an AI            *)
(* microservice.  Each client connection carries one inbound request at a  *)
(* time; a handler runs until its next await, the awaited outbound call is *)
(* settled by the environment, and the handler resumes.                    *)
(***************************************************************************)
EXTENDS Integers, Sequences, FiniteSets, TLC

(* ---------------------------------------------------------------- bounds *)
NumClients == 2
MaxRecords == 2
MaxPathLen == 2
MaxId == 80

Clients == 1..NumClients

(* ------------------------------------------------------------- JS values *)
(* A JavaScript value is a record tagged by its type k; each type keeps its  *)
(* content under a field name of its own, so that values of different types  *)
(* are told apart by their fields and never by comparing their contents.     *)
Undefined == [k |-> "undefined"]
Null == [k |-> "null"]
NaN == [k |-> "nan"]
Bool(b) == [k |-> "bool", b |-> b]
Num(n) == [k |-> "num", n |-> n]
Str(s) == [k |-> "str", s |-> s]
Arr(a) == [k |-> "arr", a |-> a]
Obj(o) == [k |-> "obj", o |-> o]
\* a string the code inspects character by character: a sequence of characters
Text(cs) == [k |-> "text", cs |-> cs]
\* the properties of {}
EmptyMap == [key \in {} |-> Null]

\* Array.isArray(x)
IsArray(x) == x.k = "arr"

\* o[key]: undefined when the property is absent
Get(x, key) == IF x.k = "obj" /\ key \in DOMAIN x.o THEN x.o[key] ELSE Undefined

\* !v is false
Truthy(x) ==
    /\ x.k \notin {"undefined", "null", "nan"}
    /\ (x.k = "bool" => x.b)
    /\ (x.k = "num" => x.n # 0)
    /\ (x.k = "str" => x.s # "")
    /\ (x.k = "text" => x.cs # <<>>)

\* JSON.stringify as the wire sees it: NaN and array holes become null, undefined
\* properties are dropped
RECURSIVE jsonWire(_)
jsonWire(x) ==
    CASE x.k = "arr" ->
            Arr([i \in DOMAIN x.a |->
                    IF x.a[i].k = "undefined" THEN Null ELSE jsonWire(x.a[i])])
      [] x.k = "obj" ->
            Obj([key \in {y \in DOMAIN x.o : x.o[y].k # "undefined"} |->
                    jsonWire(x.o[key])])
      [] x.k = "nan" -> Null
      [] OTHER -> x

(* ---------------------------------------------------------------- helper *)
\* wrapRecords(data)
wrapRecords(data) ==
    IF IsArray(Get(data, "records")) THEN data
    ELSE IF IsArray(data)
    THEN Obj([records |-> Arr([i \in DOMAIN data.a |-> Obj([fields |-> data.a[i]])])])
    ELSE Obj([records |-> Arr(<<Obj([fields |-> data])>>)])

(* -------------------------------------------------------------- parseInt *)
DigitChars == {"0", "1", "2", "3", "4", "5", "6", "7", "8", "9"}
DigitVal(ch) ==
    CASE ch = "0" -> 0 [] ch = "1" -> 1 [] ch = "2" -> 2 [] ch = "3" -> 3
      [] ch = "4" -> 4 [] ch = "5" -> 5 [] ch = "6" -> 6 [] ch = "7" -> 7
      [] ch = "8" -> 8 [] ch = "9" -> 9

\* the longest prefix of cs made of digits
RECURSIVE DigitPrefix(_)
DigitPrefix(cs) ==
    IF cs # <<>> /\ Head(cs) \in DigitChars
    THEN <<Head(cs)>> \o DigitPrefix(Tail(cs))
    ELSE <<>>

\* the number a digit sequence denotes in the given radix
RECURSIVE DigitsValue(_, _)
DigitsValue(ds, radix) ==
    IF ds = <<>> THEN 0
    ELSE DigitsValue(SubSeq(ds, 1, Len(ds) - 1), radix) * radix + DigitVal(ds[Len(ds)])

\* parseInt keeping only the first digit
parseIntOneDigit(cs) ==
    IF cs # <<>> /\ Head(cs) \in DigitChars THEN Num(DigitVal(Head(cs))) ELSE NaN

\* parseInt(string) with no radix argument: optional sign, "0x" selects radix 16,
\* then the longest run of digits; NaN when there is none
parseInt(cs) ==
    LET neg == cs # <<>> /\ Head(cs) = "-"
        body == IF neg THEN Tail(cs) ELSE cs
        hex == Len(body) >= 2 /\ body[1] = "0" /\ body[2] = "x"
        digits == DigitPrefix(IF hex THEN Tail(Tail(body)) ELSE body)
        val == DigitsValue(digits, IF hex THEN 16 ELSE 10)
    IN  IF digits = <<>> THEN NaN
        ELSE Num(IF neg THEN 0 - val ELSE val)

(* ------------------------------------------------------------------ HTTP *)
\* an HTTP body: none, or JSON text carrying a value
Empty == [k |-> "empty"]
Json(x) == [k |-> "json", x |-> x]

\* what an outbound call has come to: not settled yet, a response, or no response
NoReply == [kind |-> "none", status |-> 0, body |-> Empty]
Reply(s, b) == [kind |-> "response", status |-> s, body |-> b]
NetworkError == [kind |-> "network", status |-> 0, body |-> Empty]

\* axios resolves for a 2xx response (its default validateStatus) and rejects otherwise
axiosResolves(reply) ==
    reply.kind = "response" /\ reply.status >= 200 /\ reply.status < 300

\* response.data: the parsed body; an empty body is the empty string
axiosData(reply) == IF reply.body.k = "json" THEN reply.body.x ELSE Str("")

\* err.message of a rejected axios call
errMessage(reply) ==
    IF reply.kind = "network" THEN "Network Error"
    ELSE "Request failed with status code " \o ToString(reply.status)

\* res.json(x) and res.status(s).json(x)
resJson(x) == [status |-> 200, body |-> Json(jsonWire(x)), ended |-> TRUE]
resStatusJson(s, x) == [status |-> s, body |-> Json(jsonWire(x)), ended |-> TRUE]

\* the catch block of the handlers answering 200
catchResponseOk(reply) == resJson(Obj([error |-> Str(errMessage(reply))]))

\* the catch block of the document-service handlers
catchResponse(reply) == resStatusJson(500, Obj([error |-> Str(errMessage(reply))]))

\* try { res.json(response.data) } catch { 500 }
relayResponse(reply) ==
    IF axiosResolves(reply) THEN resJson(axiosData(reply)) ELSE catchResponse(reply)

Tables == {"Locations", "Food"}
RecordsUrl(table) == "tables/" \o table \o "/records"
DeleteUrl == "tables/Food/data/delete"
RemoveUnusedUrl == "attachments/removeUnused"
AttachmentsUrl == "attachments"

Call(svc, method, url, body) ==
    [svc |-> svc, method |-> method, url |-> url, body |-> body, reply |-> NoReply]

\* the call has been answered or has failed; it was rejected by axios
Settled(call) == call.reply.kind # "none"
Failed(call) == Settled(call) /\ ~axiosResolves(call.reply)

NoIntent == [shape |-> "none", records |-> <<>>]
NoRequest ==
    [route |-> "none", id |-> <<>>, body |-> Undefined, file |-> Undefined,
     intent |-> NoIntent]
Inbound(route, id, body, file, intent) ==
    [route |-> route, id |-> id, body |-> body, file |-> file, intent |-> intent]

(* ----------------------------------------------------------------- state *)
VARIABLES
    req,    \* per connection: the inbound request being handled
    pc,     \* per connection: where its handler is suspended
    calls,  \* per connection: the outbound calls made for the request, in order
    resp,   \* per connection: the responses written for the request, in order
    store   \* per connection: what the document service holds of the attachment
            \* the connection uploaded last, kept in the runs that observe it

vars == <<req, pc, calls, resp, store>>

Init ==
    /\ req = [c \in Clients |-> NoRequest]
    /\ pc = [c \in Clients |-> "idle"]
    /\ calls = [c \in Clients |-> <<>>]
    /\ resp = [c \in Clients |-> <<>>]
    /\ store = [c \in Clients |-> "none"]

\* the handler runs to its first await, having made one outbound call
Suspend(c, r, call, at) ==
    /\ pc[c] = "idle"
    /\ req' = [req EXCEPT ![c] = r]
    /\ calls' = [calls EXCEPT ![c] = <<call>>]
    /\ pc' = [pc EXCEPT ![c] = at]
    /\ UNCHANGED resp

\* the handler answers without making any outbound call
Reject(c, r, response) ==
    /\ pc[c] = "idle"
    /\ req' = [req EXCEPT ![c] = r]
    /\ resp' = [resp EXCEPT ![c] = <<response>>]
    /\ pc' = [pc EXCEPT ![c] = "done"]
    /\ UNCHANGED calls

\* the awaited call (the last one made) settles with reply, and the handler answers
Answer(c, reply, response) ==
    /\ calls' = [calls EXCEPT ![c][Len(calls[c])].reply = reply]
    /\ resp' = [resp EXCEPT ![c] = Append(@, response)]
    /\ pc' = [pc EXCEPT ![c] = "done"]
    /\ UNCHANGED req

(* ---------------------------------------------------------- Record Proxy *)
ListRoute(table) == IF table = "Locations" THEN "GET /api/locations" ELSE "GET /api/food"
CreateRoute(table) == IF table = "Locations" THEN "POST /api/locations" ELSE "POST /api/food"

\* app.get("/api/locations"), app.get("/api/food"): up to the await
GetRecords(c, table) ==
    Suspend(c, Inbound(ListRoute(table), <<>>, Undefined, Undefined, NoIntent),
            Call("doc", "GET", RecordsUrl(table), Undefined), "awaitRelay")

\* app.post("/api/locations"), app.post("/api/food"): up to the await
PostRecords(c, table, in) ==
    Suspend(c, Inbound(CreateRoute(table), <<>>, in.body, Undefined, in.intent),
            Call("doc", "POST", RecordsUrl(table), jsonWire(wrapRecords(in.body))),
            "awaitRelay")

\* the one-element bulk patch of app.patch("/api/food/:id")
patchBody(recordId, fields) ==
    Obj([records |-> Arr(<<Obj([id |-> recordId, fields |-> fields])>>)])

\* app.patch("/api/food/:id"): up to the await
PatchFood(c, id, fields) ==
    Suspend(c, Inbound("PATCH /api/food/:id", id, fields, Undefined, NoIntent),
            Call("doc", "PATCH", RecordsUrl("Food"),
                 jsonWire(patchBody(parseInt(id), fields))),
            "awaitRelay")

\* the list, create, update and attachment handlers after their await
RelaySettles(c, reply) ==
    /\ pc[c] = "awaitRelay"
    /\ Answer(c, reply, relayResponse(reply))

\* const deleteBody = [recordId]
deleteBody(recordId) == Arr(<<recordId>>)

\* res.json({ success: true, deletedId: recordId, attachmentsCleaned: true })
deletedResponse(recordId) ==
    resJson(Obj([success |-> Bool(TRUE), deletedId |-> recordId,
                 attachmentsCleaned |-> Bool(TRUE)]))

\* app.delete("/api/food/:id"): up to the first await
DeleteFood(c, id) ==
    Suspend(c, Inbound("DELETE /api/food/:id", id, Undefined, Undefined, NoIntent),
            Call("doc", "POST", DeleteUrl, jsonWire(deleteBody(parseInt(id)))),
            "awaitDelete")

\* a delete handler that goes on to the cleanup whatever the delete came to
proceedsAlways(reply) == TRUE

\* await axios.post(deleteUrl, ...): a rejection jumps to the catch block
proceedsToCleanup(reply) == axiosResolves(reply)

\* app.delete("/api/food/:id"): the delete call settles
DeleteSettles(c, reply) ==
    /\ pc[c] = "awaitDelete"
    /\ IF proceedsToCleanup(reply)
       THEN /\ calls' = [calls EXCEPT
                    ![c] = Append([@ EXCEPT ![1].reply = reply],
                                  Call("doc", "POST", RemoveUnusedUrl, Null))]
            /\ pc' = [pc EXCEPT ![c] = "awaitCleanup"]
            /\ UNCHANGED <<req, resp>>
       ELSE Answer(c, reply, catchResponse(reply))

\* app.delete("/api/food/:id"): the removeUnused call settles
CleanupSettles(c, reply) ==
    /\ pc[c] = "awaitCleanup"
    /\ Answer(c, reply,
              IF axiosResolves(reply)
              THEN deletedResponse(parseInt(req[c].id))
              ELSE catchResponse(reply))

(* ------------------------------------------------------ Attachment Proxy *)
\* app.get("/api/attachments"): up to the await
GetAttachments(c) ==
    Suspend(c, Inbound("GET /api/attachments", <<>>, Undefined, Undefined, NoIntent),
            Call("doc", "GET", AttachmentsUrl, Undefined), "awaitRelay")

\* a check that lets every request through
fileMissingNever(file) == FALSE

\* if (!req.file)
fileMissing(file) == ~Truthy(file)

\* app.post("/api/attachments"): up to the await
PostAttachments(c, file) ==
    LET r == Inbound("POST /api/attachments", <<>>, Undefined, file, NoIntent)
    IN  IF fileMissing(file)
        THEN Reject(c, r, resStatusJson(400, Obj([error |-> Str("No file uploaded")])))
        ELSE Suspend(c, r,
                     Call("doc", "POST", AttachmentsUrl, Obj([upload |-> file])),
                     "awaitRelay")

\* the response is complete and the connection takes its next request
Close(c) ==
    /\ pc[c] = "done"
    /\ req' = [req EXCEPT ![c] = NoRequest]
    /\ pc' = [pc EXCEPT ![c] = "idle"]
    /\ calls' = [calls EXCEPT ![c] = <<>>]
    /\ resp' = [resp EXCEPT ![c] = <<>>]

(* ------------------------------------------------------ string functions *)
Whitespace == {" ", "\n"}

\* String.prototype.trim
RECURSIVE trimStart(_)
trimStart(cs) ==
    IF cs # <<>> /\ Head(cs) \in Whitespace THEN trimStart(Tail(cs)) ELSE cs
RECURSIVE trimEnd(_)
trimEnd(cs) ==
    IF cs # <<>> /\ cs[Len(cs)] \in Whitespace
    THEN trimEnd(SubSeq(cs, 1, Len(cs) - 1))
    ELSE cs
trim(cs) == trimEnd(trimStart(cs))

\* String.prototype.startsWith
startsWith(cs, prefix) ==
    Len(cs) >= Len(prefix) /\ SubSeq(cs, 1, Len(prefix)) = prefix

\* String.prototype.substring(start, end): both clamped to 0..length, swapped when
\* start > end; the characters at the 0-based positions start..end-1
substring(cs, start, end) ==
    LET clamp(n) == IF n < 0 THEN 0 ELSE IF n > Len(cs) THEN Len(cs) ELSE n
        a == clamp(start)
        b == clamp(end)
        lo == IF a <= b THEN a ELSE b
        hi == IF a <= b THEN b ELSE a
    IN  SubSeq(cs, lo + 1, hi)

\* the characters of a string literal joined into one string
RECURSIVE Join(_)
Join(cs) == IF cs = <<>> THEN "" ELSE Head(cs) \o Join(Tail(cs))

\* the backquote character (the lexer takes no backquote inside a string, so the
\* model writes it as an apostrophe, which no text here contains otherwise)
Tick == "'"
\* the fence markers of startsWith: three backquotes, with or without "json"
FenceJson == <<Tick, Tick, Tick, "j", "s", "o", "n">>
Fence == <<Tick, Tick, Tick>>

(* ------------------------------------------------------------ JSON.parse *)
\* JSON.parse on texts without escape sequences, fractions or exponents (the
\* characters that start them are not in the texts the microservice is given here)
ParseFail == [ok |-> FALSE, val |-> Undefined, next |-> 0]
ParseOk(x, n) == [ok |-> TRUE, val |-> x, next |-> n]

RECURSIVE SkipWs(_, _)
SkipWs(s, i) == IF i <= Len(s) /\ s[i] \in Whitespace THEN SkipWs(s, i + 1) ELSE i

\* the position of the quote closing the string opened before position i, or 0
RECURSIVE StringEnd(_, _)
StringEnd(s, i) ==
    IF i > Len(s) \/ s[i] = "\n" THEN 0
    ELSE IF s[i] = "\"" THEN i
    ELSE StringEnd(s, i + 1)

\* a string literal at position i; val is its characters
ParseString(s, i) ==
    IF i > Len(s) \/ s[i] # "\"" THEN ParseFail
    ELSE LET e == StringEnd(s, i + 1)
         IN  IF e = 0 THEN ParseFail ELSE ParseOk(SubSeq(s, i + 1, e - 1), e + 1)

\* a number at position i: an optional minus, then 0 or digits not starting with 0
ParseNumber(s, i) ==
    LET neg == s[i] = "-"
        j == IF neg THEN i + 1 ELSE i
        rest == SubSeq(s, j, Len(s))
        digits == IF rest # <<>> /\ Head(rest) = "0" THEN <<"0">> ELSE DigitPrefix(rest)
        val == DigitsValue(digits, 10)
    IN  IF digits = <<>> THEN ParseFail
        ELSE ParseOk(Num(IF neg THEN 0 - val ELSE val), j + Len(digits))

ParseLiteral(s, i, word, x) ==
    IF startsWith(SubSeq(s, i, Len(s)), word) THEN ParseOk(x, i + Len(word)) ELSE ParseFail

RECURSIVE ParseValue(_, _), ParseMembers(_, _, _), ParseElements(_, _, _)
\* a value starting at or after position i0
ParseValue(s, i0) ==
    LET i == SkipWs(s, i0)
    IN  IF i > Len(s) THEN ParseFail
        ELSE IF s[i] = "{"
        THEN LET j == SkipWs(s, i + 1)
             IN  IF j <= Len(s) /\ s[j] = "}" THEN ParseOk(Obj(EmptyMap), j + 1)
                 ELSE ParseMembers(s, j, EmptyMap)
        ELSE IF s[i] = "["
        THEN LET j == SkipWs(s, i + 1)
             IN  IF j <= Len(s) /\ s[j] = "]" THEN ParseOk(Arr(<<>>), j + 1)
                 ELSE ParseElements(s, j, <<>>)
        ELSE IF s[i] = "\""
        THEN LET r == ParseString(s, i)
             IN  IF r.ok THEN ParseOk(Str(Join(r.val)), r.next) ELSE ParseFail
        ELSE IF s[i] = "n" THEN ParseLiteral(s, i, <<"n", "u", "l", "l">>, Null)
        ELSE IF s[i] = "t" THEN ParseLiteral(s, i, <<"t", "r", "u", "e">>, Bool(TRUE))
        ELSE IF s[i] = "f"
        THEN ParseLiteral(s, i, <<"f", "a", "l", "s", "e">>, Bool(FALSE))
        ELSE IF s[i] = "-" \/ s[i] \in DigitChars THEN ParseNumber(s, i)
        ELSE ParseFail

\* the members of an object from position i0 on, acc holding those read so far; a
\* repeated key keeps its last value
ParseMembers(s, i0, acc) ==
    LET key == ParseString(s, SkipWs(s, i0))
    IN  IF ~key.ok THEN ParseFail
        ELSE LET j == SkipWs(s, key.next)
             IN  IF j > Len(s) \/ s[j] # ":" THEN ParseFail
                 ELSE LET val == ParseValue(s, j + 1)
                      IN  IF ~val.ok THEN ParseFail
                          ELSE LET m == SkipWs(s, val.next)
                                   acc2 == (Join(key.val) :> val.val) @@ acc
                               IN  IF m > Len(s) THEN ParseFail
                                   ELSE IF s[m] = "," THEN ParseMembers(s, m + 1, acc2)
                                   ELSE IF s[m] = "}" THEN ParseOk(Obj(acc2), m + 1)
                                   ELSE ParseFail

\* the elements of an array from position i0 on
ParseElements(s, i0, acc) ==
    LET val == ParseValue(s, i0)
    IN  IF ~val.ok THEN ParseFail
        ELSE LET m == SkipWs(s, val.next)
                 acc2 == Append(acc, val.val)
             IN  IF m > Len(s) THEN ParseFail
                 ELSE IF s[m] = "," THEN ParseElements(s, m + 1, acc2)
                 ELSE IF s[m] = "]" THEN ParseOk(Arr(acc2), m + 1)
                 ELSE ParseFail

\* JSON.parse(text): the whole text must be one value
JSONparse(s) ==
    LET r == ParseValue(s, 1)
    IN  IF r.ok /\ SkipWs(s, r.next) > Len(s) THEN r ELSE ParseFail

(* -------------------------------------------------------------- AI Relay *)
ChatUrl == "api/chat"

\* response.ok of fetch
fetchOk(reply) == reply.kind = "response" /\ reply.status >= 200 /\ reply.status < 300

\* the payload of the image analysis, as far as the microservice's answer depends on it
analysisPayload == Obj([stream |-> Bool(FALSE), think |-> Bool(FALSE)])

\* app.post("/api/analyzeImage"): up to the await of fetch
AnalyzeImage(c, file) ==
    LET r == Inbound("POST /api/analyzeImage", <<>>, Undefined, file, NoIntent)
    IN  IF fileMissing(file)
        THEN Reject(c, r, resStatusJson(400, Obj([error |-> Str("No image provided")])))
        ELSE Suspend(c, r,
                     Call("ai", "POST", ChatUrl,
                          Obj([payload |-> analysisPayload, image |-> file])),
                     "awaitAnalyze")

\* step 6, cleaning: trim, then cut the fence marker from the front and three
\* characters from the back when the text starts with a fence marker
cleanFence(content) ==
    LET jsonString == trim(content)
    IN  IF startsWith(jsonString, FenceJson)
        THEN trim(substring(jsonString, 7, Len(jsonString) - 3))
        ELSE IF startsWith(jsonString, Fence)
        THEN trim(substring(jsonString, 3, Len(jsonString) - 3))
        ELSE jsonString

\* the catch block of the image analysis
AnalysisFailed == resStatusJson(500, Obj([error |-> Str("Failed to analyze image")]))

\* what the handler answers once fetch has settled: a rejected fetch, a non-ok
\* status, a body that is not JSON, a missing or non-string content and a text
\* JSON.parse rejects all throw into the catch block; the parsed value is sent
analysisResponse(reply) ==
    IF ~fetchOk(reply) \/ reply.body.k # "json" THEN AnalysisFailed
    ELSE LET content == Get(reply.body.x, "content")
         IN  IF content.k # "text" THEN AnalysisFailed
             ELSE LET aiJson == JSONparse(cleanFence(content.cs))
                  IN  IF aiJson.ok THEN resJson(aiJson.val) ELSE AnalysisFailed

\* app.post("/api/analyzeImage"): fetch settles (the body is read in the same step)
AnalyzeSettles(c, reply) ==
    /\ pc[c] = "awaitAnalyze"
    /\ Answer(c, reply, analysisResponse(reply))

\* the catch block of the pantry chat, no header sent yet
ChatFailed(message) ==
    resStatusJson(500, Obj([error |-> Str("AI service call failed: " \o message)]))

\* if (!items || !message)
chatInputMissing(body) == ~Truthy(Get(body, "items")) \/ ~Truthy(Get(body, "message"))

\* items.map(i => ...i.Name...) throws unless items is an array without null entries
contextThrows(items) ==
    \/ ~IsArray(items)
    \/ \E i \in DOMAIN items.a : items.a[i].k \in {"null", "undefined"}

\* the context: one line per item, from its Name, Quantity and Expiration * 1000
chatContext(items) ==
    Arr([i \in DOMAIN items.a |->
            LET e == Get(items.a[i], "Expiration")
            IN  Obj([name |-> Get(items.a[i], "Name"),
                     quantity |-> Get(items.a[i], "Quantity"),
                     expiresMs |-> IF e.k = "num" THEN Num(e.n * 1000) ELSE NaN])])

\* app.post("/api/pantryChat"): up to the await of fetch
PantryChat(c, body) ==
    LET r == Inbound("POST /api/pantryChat", <<>>, body, Undefined, NoIntent)
    IN  IF chatInputMissing(body)
        THEN Reject(c, r, resStatusJson(400, Obj([error |-> Str("Missing items or message")])))
        ELSE IF contextThrows(Get(body, "items"))
        THEN Reject(c, r, ChatFailed("items.map is not a function"))
        ELSE Suspend(c, r,
                     Call("ai", "POST", ChatUrl,
                          Obj([payload |->
                                 jsonWire(Obj([stream |-> Bool(TRUE),
                                               context |-> chatContext(Get(body, "items")),
                                               message |-> Get(body, "message")]))])),
                     "awaitChat")

\* a streamed body: the chunks written so far
Stream(chunks) == [k |-> "stream", chunks |-> chunks]

\* errData.error || `HTTP error! status: ${response.status}`, errData being the
\* body, or the fallback object when the body is not JSON
chatErrorMessage(reply) ==
    LET error == IF reply.body.k = "json" THEN Get(reply.body.x, "error") ELSE Undefined
    IN  IF error.k = "str" /\ Truthy(error) THEN error.s
        ELSE "HTTP error! status: " \o ToString(reply.status)

\* app.post("/api/pantryChat"): fetch settles; on success the headers are set and the
\* upstream body is piped into the response
ChatSettles(c, reply) ==
    /\ pc[c] = "awaitChat"
    /\ IF reply.kind = "network" THEN Answer(c, reply, ChatFailed("fetch failed"))
       ELSE IF ~fetchOk(reply) THEN Answer(c, reply, ChatFailed(chatErrorMessage(reply)))
       ELSE /\ calls' = [calls EXCEPT ![c][1].reply = reply]
            /\ resp' = [resp EXCEPT
                    ![c] = <<[status |-> 200, body |-> Stream(<<>>), ended |-> FALSE]>>]
            /\ pc' = [pc EXCEPT ![c] = "streaming"]
            /\ UNCHANGED req

MaxChunks == 2

\* a relay that keeps the chunks to itself until the upstream ends
pipeKeeps(written, chunk) == written

\* pipe's handler of the source's data event: dest.write(chunk)
pipeWrites(written, chunk) == Append(written, chunk)

\* response.body.pipe(res): the upstream body emits its next chunk and, in the same
\* turn of the event loop, pipe writes it to the response
StreamChunk(c, chunk) ==
    /\ pc[c] = "streaming"
    /\ Len(calls[c][1].reply.body.chunks) < MaxChunks
    /\ calls' = [calls EXCEPT ![c][1].reply.body.chunks = Append(@, chunk)]
    /\ resp' = [resp EXCEPT ![c][1].body.chunks = pipeWrites(@, chunk)]
    /\ UNCHANGED <<req, pc>>

\* response.body.pipe(res): the upstream ends and pipe ends the response
StreamEnd(c) ==
    /\ pc[c] = "streaming"
    /\ resp' = [resp EXCEPT ![c][1].ended = TRUE]
    /\ pc' = [pc EXCEPT ![c] = "done"]
    /\ UNCHANGED <<req, calls>>

\* response.body.pipe(res): the upstream body fails before its end (the connection
\* to the microservice breaks).  The handler's try block was left when pipe
\* returned, so its catch never runs; pipe stops on the source's error without
\* ending the destination, and nothing else closes the response.
StreamFails(c) ==
    /\ pc[c] = "streaming"
    /\ pc' = [pc EXCEPT ![c] = "stalled"]
    /\ UNCHANGED <<req, calls, resp>>

(* ------------------------------------------------------------ environment *)
\* field maps over two column names, one of them called "records": Name holds a
\* text, records a text or a list
FieldNames == {"Name", "records"}
FieldValues == {Str("Milk"), Arr(<<Num(1)>>)}
FieldMaps ==
    {Obj(f) : f \in {g \in UNION {[D -> FieldValues] : D \in SUBSET FieldNames} :
                        "Name" \in DOMAIN g => g["Name"].k = "str"}}
FieldMapSeqs == UNION {[1..n -> FieldMaps] : n \in 0..MaxRecords}

\* the three shapes of a create body, each with the records the caller means
BareInput(m) == [body |-> m, intent |-> [shape |-> "bare", records |-> <<m>>]]
ArrayInput(ms) == [body |-> Arr(ms), intent |-> [shape |-> "array", records |-> ms]]
WrappedInput(ms) ==
    [body |-> Obj([records |-> Arr([i \in DOMAIN ms |-> Obj([fields |-> ms[i]])])]),
     intent |-> [shape |-> "wrapped", records |-> ms]]
CreateInputs ==
    {BareInput(m) : m \in FieldMaps}
        \cup {ArrayInput(ms) : ms \in FieldMapSeqs}
        \cup {WrappedInput(ms) : ms \in FieldMapSeqs}

\* the :id of a path, over a few characters
PathChars == {"0", "1", "7", "-", "x"}
Paths == UNION {[1..n -> PathChars] : n \in 1..MaxPathLen}

PatchFields == {Obj([Quantity |-> Num(12)])}
SomeFile == Obj([originalname |-> Str("photo.png")])
Files == {Undefined, SomeFile}

\* answers of the document service
SomeRecords == Json(Obj([records |-> Arr(<<Obj([id |-> Num(1)])>>)]))
SomeError == Json(Obj([error |-> Str("not found")]))
DocReplies ==
    {Reply(200, SomeRecords), Reply(201, SomeRecords), Reply(204, Empty),
     Reply(404, SomeError), Reply(500, Empty), NetworkError}

\* texts of the microservice: a JSON text or a broken one, with or without a fence
\* before and after it, padded by up to MaxPad newlines on each side
MaxPad == 1
FullObjectText ==
    <<"{", "\"", "i", "t", "e", "m", "\"", ":", "\"", "A", "\"", ",", "\"", "e", "x",
      "p", "i", "r", "a", "t", "i", "o", "n", "_", "d", "a", "y", "s", "\"", ":", "7",
      ",", "\"", "n", "o", "t", "e", "s", "\"", ":", "n", "u", "l", "l", "}">>
PartialObjectText ==
    <<"{", "\"", "i", "t", "e", "m", "\"", ":", "\"", "A", "\"", "}">>
BrokenText ==
    <<"{", "\"", "i", "t", "e", "m", "\"", ":">>
JsonTexts ==
    {FullObjectText, PartialObjectText, BrokenText, <<"7">>, <<"n", "u", "l", "l">>,
     <<"[", "1", "]">>, <<>>}
Openers == {<<>>, FenceJson \o <<"\n">>, Fence \o <<"\n">>, FenceJson}
Closers == {<<>>, <<"\n">> \o Fence, Fence, <<"\n", Tick, Tick>>}
Pads == {[i \in 1..n |-> "\n"] : n \in 0..MaxPad}
AnalysisTexts ==
    {l \o o \o t \o e \o r : l \in Pads, o \in Openers, t \in JsonTexts, e \in Closers,
                            r \in Pads}

AiError == Json(Obj([error |-> Str("model not found")]))
AnalysisReplies ==
    {Reply(200, Json(Obj([content |-> Text(t)]))) : t \in AnalysisTexts}
        \cup {Reply(200, Json(Obj(EmptyMap))), Reply(200, Json(Obj([content |-> Num(7)]))),
              Reply(200, Json(Null)), Reply(200, Empty),
              Reply(500, AiError), Reply(500, Empty), NetworkError}

ChatItem == Obj([Name |-> Str("Milk"), Quantity |-> Num(1), Expiration |-> Num(17)])
ChatBodies ==
    {Obj(f) : f \in UNION {[D -> {Null}] : D \in SUBSET {"items", "message"}}}
        \cup {Obj([items |-> i, message |-> m]) :
                i \in {Arr(<<>>), Arr(<<ChatItem>>), Arr(<<Null>>), Num(5)},
                m \in {Str(""), Str("What can I make?")}}
\* the chunks the microservice streams
Chunks == {"a", "b"}
ChatReplies ==
    {Reply(200, Stream(<<>>)), Reply(500, AiError), Reply(502, Empty), NetworkError}

\* the requests and answers of the concurrent runs: a few of each kind
Representative ==
    [serial |-> FALSE,
     creates |-> {ArrayInput(<<Obj([Name |-> Str("Milk")])>>)},
     paths |-> {<<"7">>},
     files |-> Files,
     docReplies |-> {Reply(200, SomeRecords), Reply(201, SomeRecords),
                     Reply(404, SomeError), NetworkError},
     analysisReplies |->
        {Reply(200, Json(Obj([content |-> Text(FullObjectText)]))), Reply(500, AiError)},
     chatBodies |-> {Obj(EmptyMap), Obj([items |-> Arr(<<ChatItem>>),
                                     message |-> Str("What can I make?")])},
     chatReplies |-> {Reply(200, Stream(<<>>)), Reply(500, AiError)},
     chunks |-> {"a"},
     observed |-> FALSE,
     clients |-> Clients]

\* the two connections of a race
Racers == {c \in Clients : c <= 2}

\* the requests and answers of the concurrent runs that observe what the document
\* service holds: two connections, every call succeeds
Racing ==
    [serial |-> FALSE,
     creates |-> {ArrayInput(<<Obj([Name |-> Str("Milk")])>>)},
     paths |-> {<<"7">>},
     files |-> {SomeFile},
     docReplies |-> {Reply(200, SomeRecords)},
     analysisReplies |-> {Reply(200, Json(Obj([content |-> Text(FullObjectText)])))},
     chatBodies |-> {Obj([items |-> Arr(<<ChatItem>>), message |-> Str("What can I make?")])},
     chatReplies |-> {Reply(200, Stream(<<>>))},
     chunks |-> {"a"},
     observed |-> TRUE,
     clients |-> Racers]

\* the requests and answers of the runs that take one request at a time: all of them
Exhaustive ==
    [serial |-> TRUE,
     creates |-> CreateInputs,
     paths |-> Paths,
     files |-> Files,
     docReplies |-> DocReplies,
     analysisReplies |-> AnalysisReplies,
     chatBodies |-> ChatBodies,
     chatReplies |-> ChatReplies,
     chunks |-> Chunks,
     observed |-> FALSE,
     clients |-> Clients]

\* a server that takes a request only when no other is being handled
AcceptsOneAtATime(E) == \A d \in Clients : pc[d] = "idle"

\* a connection takes a request; in a serial run only when no other is being handled
Accepts(E) == E.serial => \A d \in Clients : pc[d] = "idle"

\* the document service after a step of connection c that settled a call of c
\* successfully: an upload leaves a fresh attachment, which no record refers to
\* yet; removeUnused sweeps every fresh attachment; a record write of the
\* uploading connection refers to its attachment, which is no longer fresh
Stored(E, c, before, after) ==
    LET done == {i \in DOMAIN before[c] \cap DOMAIN after[c] :
                    /\ ~Settled(before[c][i])
                    /\ Settled(after[c][i])
                    /\ axiosResolves(after[c][i].reply)
                    /\ after[c][i].svc = "doc"
                    /\ after[c][i].method \in {"POST", "PATCH"}}
        urls == {after[c][i].url : i \in done}
    IN  IF ~E.observed THEN store
        ELSE IF AttachmentsUrl \in urls THEN [store EXCEPT ![c] = "fresh"]
        ELSE IF RemoveUnusedUrl \in urls
        THEN [d \in Clients |-> IF store[d] = "fresh" THEN "swept" ELSE store[d]]
        ELSE IF urls \cap {RecordsUrl(t) : t \in Tables} # {} /\ store[c] = "fresh"
        THEN [store EXCEPT ![c] = "none"]
        ELSE store

(* ---------------------------------------------------------- specification *)
\* connection c sends a request and its handler runs to its first await or answer
Takes(E, c) ==
    \/ Accepts(E) /\ (\E t \in Tables : GetRecords(c, t)) /\ UNCHANGED store
    \/ Accepts(E) /\ (\E t \in Tables, in \in E.creates : PostRecords(c, t, in))
                  /\ UNCHANGED store
    \/ Accepts(E) /\ (\E id \in E.paths, f \in PatchFields : PatchFood(c, id, f))
                  /\ UNCHANGED store
    \/ Accepts(E) /\ (\E id \in E.paths : DeleteFood(c, id)) /\ UNCHANGED store
    \/ Accepts(E) /\ GetAttachments(c) /\ UNCHANGED store
    \/ Accepts(E) /\ (\E file \in E.files : PostAttachments(c, file)) /\ UNCHANGED store
    \/ Accepts(E) /\ (\E file \in E.files : AnalyzeImage(c, file)) /\ UNCHANGED store
    \/ Accepts(E) /\ (\E body \in E.chatBodies : PantryChat(c, body)) /\ UNCHANGED store

\* the outbound call that the handler of c awaits completes, or the stream that is
\* piped to c moves on, and the handler resumes
Completes(E, c) ==
    \/ (\E reply \in E.docReplies : RelaySettles(c, reply))
            /\ store' = Stored(E, c, calls, calls')
    \/ (\E reply \in E.docReplies : DeleteSettles(c, reply))
            /\ store' = Stored(E, c, calls, calls')
    \/ (\E reply \in E.docReplies : CleanupSettles(c, reply))
            /\ store' = Stored(E, c, calls, calls')
    \/ (\E reply \in E.analysisReplies : AnalyzeSettles(c, reply)) /\ UNCHANGED store
    \/ (\E reply \in E.chatReplies : ChatSettles(c, reply)) /\ UNCHANGED store
    \/ (\E chunk \in E.chunks : StreamChunk(c, chunk)) /\ UNCHANGED store
    \/ StreamEnd(c) /\ UNCHANGED store
    \/ StreamFails(c) /\ UNCHANGED store

NextOf(E) ==
    \E c \in E.clients :
        \/ Takes(E, c)
        \/ Completes(E, c)
        \/ Close(c) /\ UNCHANGED store

\* requests handled concurrently
Next == NextOf(Representative)
Spec == Init /\ [][Next]_vars

\* requests handled concurrently, where every outbound call completes and every
\* stream moves on, except that the calls made for connection 1 may hang for ever
SpecLive ==
    Init /\ [][Next]_vars /\ \A c \in Clients \ {1} : WF_vars(Completes(Representative, c))

\* requests handled one at a time, over every input within the bounds
NextSeq == NextOf(Exhaustive)
SpecSeq == Init /\ [][NextSeq]_vars

\* requests handled concurrently, the document service's writes observed
NextRace == NextOf(Racing)
SpecRace == Init /\ [][NextRace]_vars

(* ------------------------------------------------------------ properties *)
IsCreate(c) == req[c].intent.shape # "none"
IsDelete(c) == req[c].route = "DELETE /api/food/:id"
IsAnalysis(c) == req[c].route = "POST /api/analyzeImage"

\* {records:[{fields: r1}, {fields: r2}, ...]} for the records r1, r2, ...
WrappedForm(records) ==
    Obj([records |-> Arr([i \in DOMAIN records |-> Obj([fields |-> records[i]])])])

\* C1 as stated: whatever the shape of a create body, the body forwarded to the
\* document service is {records:[{fields:...}, ...]} with one entry per record the
\* caller means, each entry's fields being that record.
C1_CreateAlwaysWrapped ==
    \A c \in Clients :
        IsCreate(c) /\ calls[c] # <<>>
            => calls[c][1].body = WrappedForm(req[c].intent.records)

\* C2 as stated: when the record delete succeeds and the attachment cleanup fails,
\* the caller gets a response that is not a 500 and reports success: true, the
\* deleted id, and attachmentsCleaned: false.
C2_CleanupFailureReported ==
    \A c \in Clients :
        /\ IsDelete(c)
        /\ Len(calls[c]) = 2
        /\ axiosResolves(calls[c][1].reply)
        /\ Failed(calls[c][2])
        => /\ Len(resp[c]) = 1
           /\ resp[c][1].status # 500
           /\ resp[c][1].body =
                Json(jsonWire(Obj([success |-> Bool(TRUE),
                                   deletedId |-> parseInt(req[c].id),
                                   attachmentsCleaned |-> Bool(FALSE)])))

\* C3: the removeUnused call is made only by a delete request, as its second call,
\* once its own delete call has settled successfully; a failed delete call is the
\* request's only call and is answered with a 500.
C3_CleanupOnlyAfterDelete ==
    \A c \in Clients :
        /\ \A i \in DOMAIN calls[c] :
                calls[c][i].url = RemoveUnusedUrl
                    => /\ IsDelete(c)
                       /\ i = 2
                       /\ calls[c][1].url = DeleteUrl
                       /\ Settled(calls[c][1])
                       /\ axiosResolves(calls[c][1].reply)
        /\ IsDelete(c) /\ calls[c] # <<>> /\ Failed(calls[c][1])
                => /\ Len(calls[c]) = 1
                   /\ Len(resp[c]) = 1
                   /\ resp[c][1].status = 500

\* one delete request is awaiting its cleanup while another, whose delete call
\* failed, has been answered
C3_Witness ==
    \E c, d \in Clients :
        /\ pc[c] = "awaitCleanup"
        /\ calls[c][2].url = RemoveUnusedUrl
        /\ IsDelete(d) /\ pc[d] = "done" /\ Failed(calls[d][1])

\* the decimal numeral of a natural number
DigitChar(n) == CHOOSE ch \in DigitChars : DigitVal(ch) = n
RECURSIVE Decimal(_)
Decimal(n) == IF n < 10 THEN <<DigitChar(n)>> ELSE Decimal(n \div 10) \o <<DigitChar(n % 10)>>

\* C4: for a delete of the record whose id is the integer n written in the path,
\* when both upstream calls succeed the response is exactly {success: true,
\* deletedId: n, attachmentsCleaned: true} with status 200, and the body sent to
\* the bulk-delete endpoint was the one-element array [n].
C4_DeleteReportsId ==
    \A c \in Clients : \A n \in 0..MaxId :
        /\ IsDelete(c)
        /\ req[c].id = Decimal(n)
        /\ pc[c] = "done"
        /\ Len(calls[c]) = 2
        /\ axiosResolves(calls[c][2].reply)
        => /\ resp[c] =
                <<[status |-> 200,
                   body |-> Json(Obj([success |-> Bool(TRUE), deletedId |-> Num(n),
                                      attachmentsCleaned |-> Bool(TRUE)])),
                   ended |-> TRUE]>>
           /\ calls[c][1].url = DeleteUrl
           /\ calls[c][1].body = Arr(<<Num(n)>>)

\* the record 17 has been deleted and the cleanup has succeeded
C4_Witness ==
    \E c \in Clients :
        /\ IsDelete(c)
        /\ req[c].id = <<"1", "7">>
        /\ pc[c] = "done"
        /\ Len(calls[c]) = 2
        /\ axiosResolves(calls[c][2].reply)
        /\ resp[c][1].body.x.o.deletedId = Num(17)

\* the required input of the request is absent
RequiredInputAbsent(c) ==
    \/ req[c].route \in {"POST /api/attachments", "POST /api/analyzeImage"}
            /\ req[c].file = Undefined
    \/ req[c].route = "POST /api/pantryChat"
            /\ (Get(req[c].body, "items") = Undefined
                    \/ Get(req[c].body, "message") = Undefined)

\* C5: an upload without a file, an image analysis without an image and a pantry
\* chat without items or without a message are answered with status 400, and no
\* outbound call is made for them.
C5_MissingInputRejected ==
    \A c \in Clients :
        RequiredInputAbsent(c)
            => /\ calls[c] = <<>>
               /\ Len(resp[c]) = 1
               /\ resp[c][1].status = 400

\* an upload without a file has been answered
C5_Witness ==
    \E c \in Clients :
        /\ req[c].route = "POST /api/attachments"
        /\ req[c].file = Undefined
        /\ pc[c] = "done"
        /\ resp[c][1].status = 400

\* C6: a failed call to the document service (no response, or a status outside
\* 2xx) is the last call of its request, is answered with a 500 carrying the
\* error's message, and no call of a request repeats an earlier one.
C6_UpstreamFailureIs500 ==
    \A c \in Clients :
        /\ \A i \in DOMAIN calls[c] :
                calls[c][i].svc = "doc" /\ Failed(calls[c][i])
                    => /\ i = Len(calls[c])
                       /\ pc[c] = "done"
                       /\ Len(resp[c]) = 1
                       /\ resp[c][1].status = 500
                       /\ resp[c][1].body =
                            Json(Obj([error |->
                                        Str(IF calls[c][i].reply.kind = "network"
                                            THEN "Network Error"
                                            ELSE "Request failed with status code "
                                                    \o ToString(calls[c][i].reply.status))]))
        /\ \A i, j \in DOMAIN calls[c] :
                i # j => calls[c][i].url # calls[c][j].url
        /\ Len(calls[c]) <= 2

\* a call to the document service has been answered 404 and the caller 500
C6_Witness ==
    \E c \in Clients :
        /\ pc[c] = "done"
        /\ calls[c] # <<>>
        /\ calls[c][Len(calls[c])].svc = "doc"
        /\ calls[c][Len(calls[c])].reply.status = 404
        /\ resp[c][1].status = 500

\* C7 as stated: for the list and create handlers and the attachment list, the
\* response to the caller has the status and the body of the document service's
\* successful response.
C7_RelayedVerbatim ==
    \A c \in Clients :
        /\ req[c].route \in {"GET /api/locations", "GET /api/food", "POST /api/locations",
                             "POST /api/food", "GET /api/attachments"}
        /\ pc[c] = "done"
        /\ axiosResolves(calls[c][1].reply)
        => /\ Len(resp[c]) = 1
           /\ resp[c][1].status = calls[c][1].reply.status
           /\ resp[c][1].body = calls[c][1].reply.body

\* cs ends with suffix
endsWith(cs, suffix) ==
    Len(cs) >= Len(suffix) /\ SubSeq(cs, Len(cs) - Len(suffix) + 1, Len(cs)) = suffix

\* the cleanup C8 describes: after trimming, a leading fence marker is removed if
\* present, then a trailing one if present, and nothing else
stripFences(content) ==
    LET t == trim(content)
        a == IF startsWith(t, FenceJson) THEN SubSeq(t, Len(FenceJson) + 1, Len(t))
             ELSE IF startsWith(t, Fence) THEN SubSeq(t, Len(Fence) + 1, Len(t))
             ELSE t
        b == IF endsWith(a, Fence) THEN SubSeq(a, 1, Len(a) - Len(Fence)) ELSE a
    IN  trim(b)

\* the analysis request of c got a successful answer whose content is a string
HasContent(c) ==
    /\ IsAnalysis(c)
    /\ pc[c] = "done"
    /\ calls[c] # <<>>
    /\ fetchOk(calls[c][1].reply)
    /\ calls[c][1].reply.body.k = "json"
    /\ Get(calls[c][1].reply.body.x, "content").k = "text"
ContentOf(c) == Get(calls[c][1].reply.body.x, "content").cs

\* C8 as stated: the text that gets parsed is the content with a leading fence
\* marker and a trailing fence marker removed only if present and nothing else
\* removed, so whenever that text is valid JSON (fenced, unfenced, or fenced at
\* the front only) the caller gets exactly its value.
C8_FencesStrippedIfPresent ==
    \A c \in Clients :
        HasContent(c) /\ JSONparse(stripFences(ContentOf(c))).ok
            => resp[c] = <<resJson(JSONparse(stripFences(ContentOf(c))).val)>>

\* C9 as stated: when the microservice call fails in transport, answers with a
\* non-success status, omits the text, or returns a text that is not valid JSON
\* once its fences are removed, the caller gets exactly one response, the 500 with
\* the fixed message.
C9_FailuresAnswerGeneric500 ==
    \A c \in Clients :
        /\ IsAnalysis(c)
        /\ pc[c] = "done"
        /\ calls[c] # <<>>
        /\ \/ ~fetchOk(calls[c][1].reply)
           \/ ~HasContent(c)
           \/ ~JSONparse(stripFences(ContentOf(c))).ok
        => resp[c] =
                <<[status |-> 500,
                   body |-> Json(Obj([error |-> Str("Failed to analyze image")])),
                   ended |-> TRUE]>>

\* C10 as stated: a 200 is sent for an image analysis only when the parsed value
\* is an object with the fields item, expiration_days and notes.
C10_OnlyCompleteResults ==
    \A c \in Clients :
        IsAnalysis(c) /\ pc[c] = "done" /\ resp[c][1].status = 200
            => /\ resp[c][1].body.k = "json"
               /\ resp[c][1].body.x.k = "obj"
               /\ {"item", "expiration_days", "notes"} \subseteq DOMAIN resp[c][1].body.x.o

IsChat(c) == req[c].route = "POST /api/pantryChat"

\* the chat request of c got a successful answer, whose body is being relayed or
\* has been
Relaying(c) ==
    /\ IsChat(c)
    /\ calls[c] # <<>>
    /\ fetchOk(calls[c][1].reply)

\* the chunks the microservice has produced for c, and those written to its caller
Produced(c) == calls[c][1].reply.body.chunks
Delivered(c) == resp[c][1].body.chunks

IsPrefix(s, t) == Len(s) <= Len(t) /\ s = SubSeq(t, 1, Len(s))

BrokenOff(c) == IsChat(c) /\ pc[c] = "stalled"

\* C12 as stated: a pantry chat whose microservice call fails or is answered with
\* a non-success status gets one 500 with a JSON error and no stream; a caller
\* never gets both a stream and an error body; and when the upstream breaks off
\* after the headers were sent, no error body is written and the caller's
\* connection is terminated.
C12_ChatFailureHandled ==
    \A c \in Clients :
        /\ IsChat(c) /\ calls[c] # <<>> /\ Settled(calls[c][1]) /\ ~fetchOk(calls[c][1].reply)
                => /\ Len(resp[c]) = 1
                   /\ resp[c][1].status = 500
                   /\ resp[c][1].body.k = "json"
                   /\ Get(resp[c][1].body.x, "error").k = "str"
        /\ IsChat(c) => Len(resp[c]) <= 1
        /\ BrokenOff(c)
                => /\ Len(resp[c]) = 1
                   /\ resp[c][1].body.k = "stream"
                   /\ resp[c][1].ended

\* the request of c writes a record
IsRecordWrite(c) ==
    req[c].route \in {"POST /api/locations", "POST /api/food", "PATCH /api/food/:id"}

\* the delete request of c has been answered with the success report
DeleteSucceeded(c) ==
    /\ IsDelete(c)
    /\ pc[c] = "done"
    /\ resp[c] = <<deletedResponse(parseInt(req[c].id))>>

\* C13: nothing in the proxy keeps a delete's cleanup apart from another
\* connection's upload and record write.  Whatever the other connections are
\* doing, a cleanup call that is awaited can complete, and an idle connection can
\* start an upload or a record write while a cleanup call is awaited; and the
\* answers do not depend on the sweep: a record write that follows the sweep of
\* its connection's upload is still answered 200 when its call succeeds.
C13_NothingExcludesSweep ==
    \A c \in Clients :
        /\ pc[c] = "awaitCleanup"
                => /\ ENABLED CleanupSettles(c, Reply(200, SomeRecords))
                   /\ \A d \in Clients \ {c} :
                        pc[d] = "idle"
                            => /\ ENABLED (Accepts(Racing) /\ PostAttachments(d, SomeFile))
                               /\ ENABLED (Accepts(Racing)
                                            /\ PostRecords(d, "Food",
                                                    ArrayInput(<<Obj([Name |-> Str("Milk")])>>)))
        /\ IsRecordWrite(c) /\ pc[c] = "done" /\ axiosResolves(calls[c][1].reply)
                => resp[c][1].status = 200

\* the race has happened: the upload of connection d was swept by a cleanup while
\* no record referred to it, d's record write came after the sweep, and both the
\* delete and the record write are answered as successes
C13_Witness ==
    \E c, d \in Clients :
        /\ c # d
        /\ DeleteSucceeded(c)
        /\ store[d] = "swept"
        /\ IsRecordWrite(d)
        /\ pc[d] = "done"
        /\ axiosResolves(calls[d][1].reply)
        /\ resp[d][1].status = 200

\* the handler of c is suspended on an outbound call that has not completed
Awaiting(c) ==
    pc[c] \in {"awaitRelay", "awaitDelete", "awaitCleanup", "awaitAnalyze", "awaitChat"}

\* the request of c has received its response, to the end
Answered(c) == Len(resp[c]) = 1 /\ resp[c][1].ended

\* C14 as stated: a request never has more than one response and has none while a
\* call it awaits has not completed; and every request whose outbound calls
\* complete, with success or failure, eventually has received its one response,
\* whether or not the calls of another connection hang.
C14_AnsweredIffCallsComplete ==
    /\ [](\A c \in Clients : Len(resp[c]) <= 1 /\ (Awaiting(c) => resp[c] = <<>>))
    /\ \A c \in Clients \ {1} : (pc[c] # "idle") ~> Answered(c)

====
